---- MODULE Spec2Model ----
(***************************************************************************)
(* A model of src/sudoku.py: the terminal Sudoku game of class Sudoku.     *)
(*                                                                         *)
(* State: the terminal size read at startup, the initial board, the        *)
(* player board, the curses cursor, the key last read by play(), and the   *)
(* position of the program (pregame, init_board, the play loop, postgame). *)
(* The characters drawn on the screen are not part of the state: they are  *)
(* a function of the two boards and nothing in the program reads them.     *)
(* The curses window is taken to have the size os.get_terminal_size()      *)
(* reports, so a curses call on a position outside it raises curses.error. *)
(***************************************************************************)
EXTENDS Integers, Sequences, FiniteSets, TLC

VARIABLES
    height,          \* self.height
    width,           \* self.width
    initial_board,   \* self.initial_board
    board,           \* self.board
    cursor,          \* <<y, x>>: the cursor of self.stdscr (getyx)
    c,               \* the key play() read last
    checked,         \* whether is_completed() was called while handling c
    pc,              \* where the program is
    end_condition,   \* what play() returned
    off_grid_calls,  \* the positions not on the grid yx_to_ij was called with
    arg,             \* the argument of the pure function under check
    ret              \* its result

vars == <<height, width, initial_board, board, cursor, c, checked, pc,
          end_condition, off_grid_calls, arg, ret>>

game == <<height, width, initial_board, board, cursor, c, checked, pc,
          end_condition, off_grid_calls>>

----------------------------------------------------------------------------
(* Bounds of the model.                                                    *)

\* how many cells of the solved grid the well-formed puzzle leaves blank
NBlanks == 4

\* screen positions probed by the coordinate checks: -1 .. ProbeMax
ProbeMax == 13

\* terminal sizes probed by the coordinate checks: 0 .. MaxTerm
MaxTerm == 14

\* how many cells the completion check's input differs from a base grid in
MaxPokes == 2

----------------------------------------------------------------------------
(* Values.                                                                 *)

Idx == 0..8

\* yx_to_ij's sentinel for a position that is not on the grid
None == -1

ESC == "^["
ArrowKeys == {"KEY_UP", "KEY_DOWN", "KEY_LEFT", "KEY_RIGHT"}
DigitChar == <<"1", "2", "3", "4", "5", "6", "7", "8", "9">>
DigitKeys == {DigitChar[n] : n \in 1..9}
EraseKeys == {"KEY_BACKSPACE", "^H", "^?"}
\* keys no branch of play() handles; "0" is a digit the loop excludes
OtherKeys == {"0", "x"}

\* mutant: the character's code point is taken for its value
int_ord(num) == 48 + (CHOOSE n \in 1..9 : DigitChar[n] = num)

\* int(num) for a one-character digit string
int(num) == CHOOSE n \in 1..9 : DigitChar[n] = num

----------------------------------------------------------------------------
(* The coordinate mapping.                                                 *)

\* mutant: the last line and the margin column are taken to be unsafe
is_safe_pos_strict(y, x) == 0 <= y /\ y < height /\ 0 <= x /\ x < width - 2

is_safe_pos(y, x) == 0 <= y /\ y <= height /\ 0 <= x /\ x <= width - 2

is_on_grid(y, x) ==
    IF ~is_safe_pos(y, x) THEN FALSE
    ELSE IF ~(0 <= y /\ y <= 12) \/ ~(0 <= x /\ x <= 12) THEN FALSE
    ELSE x % 4 # 0 /\ y % 4 # 0

\* mutant: the separators before the position are not subtracted
yx_to_ij_dense(y, x) ==
    IF ~is_on_grid(y, x) THEN <<None, None>>
    ELSE <<y - 1, x - 1>>

yx_to_ij(y, x) ==
    IF ~is_on_grid(y, x) THEN <<None, None>>
    ELSE <<(y - 1) - (y \div 4), (x - 1) - (x \div 4)>>

is_on_initial(y, x) ==
    LET ij == yx_to_ij(y, x)
    IN  initial_board[ij[1]][ij[2]] # 0

\* the positions try_place(y, x, ..) and try_del(y, x) call yx_to_ij with,
\* directly or through is_on_initial: both stand behind is_on_grid(y, x)
guarded_calls(y, x) == IF is_on_grid(y, x) THEN {<<y, x>>} ELSE {}

\* those of the calls that get yx_to_ij's (None, None)
off_grid(calls) == {p \in calls : ~is_on_grid(p[1], p[2])}

\* mutant: the copy is shallow, the rows are those of the initial board
rows_shared_by_copy == TRUE

\* self.board = deepcopy(self.initial_board): the two boards share no row
rows_shared == FALSE

\* the initial board once the player board has been written and holds b
written_through(ib, b) == IF rows_shared THEN b ELSE ib

----------------------------------------------------------------------------
(* The curses window: which calls succeed, and where they leave the cursor.*)

\* wmove: the position must be inside the window
move_ok(y, x) == 0 <= y /\ y < height /\ 0 <= x /\ x < width

\* waddch of one character: inside the window, and not its last cell, from
\* which the cursor cannot advance
addch_ok(y, x) == move_ok(y, x) /\ ~(y = height - 1 /\ x = width - 1)

RECURSIVE addstr_rows(_)
\* the rows below the start at which addstr(y, 0, text) leaves the cursor,
\* for a text given as the lengths of its lines
addstr_rows(lens) ==
    IF Len(lens) = 1 THEN lens[1] \div width
    ELSE (lens[1] \div width) + 1 + addstr_rows(Tail(lens))

addstr_ok(y, lens) == width > 0 /\ 0 <= y /\ y + addstr_rows(lens) < height

addstr_end(y, lens) == <<y + addstr_rows(lens), lens[Len(lens)] % width>>

WelcomeText == <<18, 0, 103, 25>>
QuitText == <<43>>
WinText == <<33>>

----------------------------------------------------------------------------
(* The boards.                                                             *)

\* a solved grid
Solved == [i \in Idx |-> [j \in Idx |-> ((3 * (i % 3) + (i \div 3) + j) % 9) + 1]]

BlankOrder == <<<<0, 0>>, <<1, 1>>, <<0, 4>>, <<4, 0>>, <<8, 8>>, <<6, 7>>>>

Blanked(b, cells) ==
    [i \in Idx |-> [j \in Idx |-> IF <<i, j>> \in cells THEN 0 ELSE b[i][j]]]

\* a well-formed puzzle: the solved grid with NBlanks cells blank
Puzzle == Blanked(Solved, {BlankOrder[k] : k \in 1..NBlanks})

\* a puzzle whose givens repeat a digit: the source is not validated
FlawedPuzzle ==
    Blanked([Solved EXCEPT ![2][2] = 7], {<<8, 8>>, <<6, 7>>})

Puzzles == {Puzzle, FlawedPuzzle}

\* the terminal sizes of the game's runs, <<lines, columns>>
TermSizes == {<<24, 80>>, <<12, 80>>, <<11, 80>>, <<24, 12>>}

----------------------------------------------------------------------------
(* The board engine.                                                       *)

\* try_place's three tests: numint in this_row, this_col, this_square
in_this_row(b, i, numint) == \E l \in Idx : b[i][l] = numint

\* mutant: the column is not searched
in_this_col_skipped(b, j, numint) == FALSE

in_this_col(b, j, numint) == \E k \in Idx : b[k][j] = numint

\* mutant: the 3x3 square is not searched
in_this_square_skipped(b, i, j, numint) == FALSE

in_this_square(b, i, j, numint) ==
    \E k \in ((i \div 3) * 3)..((i \div 3) * 3 + 2) :
        \E l \in ((j \div 3) * 3)..((j \div 3) * 3 + 2) : b[k][l] = numint

\* mutant: a digit is placed on a blank cell only
place_accepted_blank_only(b, y, x, num) ==
    /\ is_on_grid(y, x)
    /\ ~is_on_initial(y, x)
    /\ LET ij == yx_to_ij(y, x)
           numint == int(num)
       IN  /\ b[ij[1]][ij[2]] = 0
           /\ ~(\/ in_this_row(b, ij[1], numint)
                 \/ in_this_col(b, ij[2], numint)
                 \/ in_this_square(b, ij[1], ij[2], numint))

\* mutant: only the row is searched for the digit
place_accepted_row_only(b, y, x, num) ==
    /\ is_on_grid(y, x)
    /\ ~is_on_initial(y, x)
    /\ LET ij == yx_to_ij(y, x)
       IN  ~in_this_row(b, ij[1], int(num))

\* mutant: the placement does not ask whether the cell is given
place_accepted_on_given(b, y, x, num) ==
    /\ is_on_grid(y, x)
    /\ LET ij == yx_to_ij(y, x)
           numint == int(num)
       IN  ~(\/ in_this_row(b, ij[1], numint)
             \/ in_this_col(b, ij[2], numint)
             \/ in_this_square(b, ij[1], ij[2], numint))

\* whether try_place(y, x, num) reaches its assignment to the board
place_accepted(b, y, x, num) ==
    /\ is_on_grid(y, x)
    /\ ~is_on_initial(y, x)
    /\ LET ij == yx_to_ij(y, x)
           numint == int(num)
       IN  ~(\/ in_this_row(b, ij[1], numint)
             \/ in_this_col(b, ij[2], numint)
             \/ in_this_square(b, ij[1], ij[2], numint))

\* mutant: the two indexes are swapped in the assignment
try_place_transposed(b, y, x, num) ==
    IF place_accepted(b, y, x, num)
    THEN LET ij == yx_to_ij(y, x)
         IN  [b EXCEPT ![ij[2]][ij[1]] = int(num)]
    ELSE b

\* the player board after try_place(y, x, num) on player board b
try_place(b, y, x, num) ==
    IF place_accepted(b, y, x, num)
    THEN LET ij == yx_to_ij(y, x)
         IN  [b EXCEPT ![ij[1]][ij[2]] = int(num)]
    ELSE b

\* mutant: the erase does not ask whether the cell is given
del_accepted_any(y, x) == is_on_grid(y, x)

\* mutant: the test of the given cells has lost its negation
del_accepted_inverted(y, x) == is_on_grid(y, x) /\ is_on_initial(y, x)

\* whether try_del(y, x) reaches its assignment to the board
del_accepted(y, x) == is_on_grid(y, x) /\ ~is_on_initial(y, x)

\* the player board after try_del(y, x) on player board b
try_del(b, y, x) ==
    IF del_accepted(y, x)
    THEN LET ij == yx_to_ij(y, x)
         IN  [b EXCEPT ![ij[1]][ij[2]] = 0]
    ELSE b

\* mutant: the move does not skip a border
try_move_no_skip(y, x, dir) == IF is_on_grid(y, x) THEN <<y, x>> ELSE cursor

\* mutant: only the vertical moves skip a border
try_move_vertical_skip_only(y, x, dir) ==
    IF is_on_grid(y, x) THEN <<y, x>>
    ELSE IF dir = "KEY_UP" /\ is_on_grid(y - 1, x) THEN <<y - 1, x>>
    ELSE IF dir = "KEY_DOWN" /\ is_on_grid(y + 1, x) THEN <<y + 1, x>>
    ELSE cursor

\* mutant: the move goes to the raw neighbour without any test
try_move_unchecked(y, x, dir) == <<y, x>>

\* the position try_move(y, x, dir) hands to stdscr.move, or the cursor's
\* own position when no branch is taken
try_move(y, x, dir) ==
    IF is_on_grid(y, x) THEN <<y, x>>
    ELSE IF dir = "KEY_UP" /\ is_on_grid(y - 1, x) THEN <<y - 1, x>>
    ELSE IF dir = "KEY_DOWN" /\ is_on_grid(y + 1, x) THEN <<y + 1, x>>
    ELSE IF dir = "KEY_LEFT" /\ is_on_grid(y, x - 1) THEN <<y, x - 1>>
    ELSE IF dir = "KEY_RIGHT" /\ is_on_grid(y, x + 1) THEN <<y, x + 1>>
    ELSE cursor

\* the raw neighbour play() passes to try_move for an arrow key
neighbour(y, x, dir) ==
    IF dir = "KEY_UP" THEN <<y - 1, x>>
    ELSE IF dir = "KEY_DOWN" THEN <<y + 1, x>>
    ELSE IF dir = "KEY_LEFT" THEN <<y, x - 1>>
    ELSE <<y, x + 1>>

RECURSIVE SetSum(_)
SetSum(S) == IF S = {} THEN 0 ELSE LET e == CHOOSE e \in S : TRUE IN e + SetSum(S \ {e})

\* the cells is_completed's first pass visits, in its order
RowMajor == [n \in 1..81 |-> <<(n - 1) \div 9, (n - 1) % 9>>]

\* the first pass raises AssertionError: it meets a cell that is neither 0
\* nor in digits before it meets a 0
is_completed_raises(b) ==
    \E n \in 1..81 :
        /\ b[RowMajor[n][1]][RowMajor[n][2]] # 0
        /\ b[RowMajor[n][1]][RowMajor[n][2]] \notin 1..9
        /\ \A m \in 1..(n - 1) : b[RowMajor[m][1]][RowMajor[m][2]] # 0

\* mutant: the deep check looks at the row only
row_col_ok_row_only(b, i) ==
    LET row == {b[i][j] : j \in Idx}
    IN  ~(Cardinality(row) # 9 \/ SetSum(row) # 45)

\* the deep check of row i and column i
row_col_ok(b, i) ==
    LET row == {b[i][j] : j \in Idx}
        col == {b[j][i] : j \in Idx}
    IN  ~(\/ Cardinality(row) # 9 \/ Cardinality(col) # 9
          \/ SetSum(row) # 45 \/ SetSum(col) # 45)

\* the deep check of the square whose top-left cell is (k, l)
square_ok(b, k, l) ==
    LET square == {b[i][j] : i \in k..(k + 2), j \in l..(l + 2)}
    IN  ~(Cardinality(square) # 9 \/ SetSum(square) # 45)

\* mutant: the deep check is never made
is_completed_fast_only(b, deep_check) ==
    ~(\E i \in Idx : \E j \in Idx : b[i][j] = 0)

\* is_completed(deep_check) on player board b, when it does not raise
is_completed(b, deep_check) ==
    IF \E i \in Idx : \E j \in Idx : b[i][j] = 0 THEN FALSE
    ELSE IF deep_check
         THEN /\ \A i \in Idx : row_col_ok(b, i)
              /\ \A k \in {0, 3, 6} : \A l \in {0, 3, 6} : square_ok(b, k, l)
         ELSE TRUE

----------------------------------------------------------------------------
(* Startup: __init__ up to the call of play().                             *)

NoKey == "unbound"

\* __init__: the terminal size, the fetched puzzle and its deep copy
Init ==
    /\ \E t \in TermSizes : height = t[1] /\ width = t[2]
    /\ initial_board \in Puzzles
    /\ board = initial_board
    /\ cursor = <<0, 0>>
    /\ c = NoKey
    /\ checked = FALSE
    /\ pc = "pregame"
    /\ end_condition = "none"
    /\ off_grid_calls = {}
    /\ arg = <<>>
    /\ ret = <<>>

\* pregame: clear, addstr of the welcome text, getch, clear
Pregame ==
    /\ pc = "pregame"
    /\ IF addstr_ok(0, WelcomeText)
       THEN pc' = "init_board" /\ cursor' = <<0, 0>>
       ELSE pc' = "error" /\ UNCHANGED cursor
    /\ UNCHANGED <<height, width, initial_board, board, c, checked,
                   end_condition, off_grid_calls, arg, ret>>

\* init_board visits x = 1..11 and, inside, y = 1..11: the n-th visit
DrawOrder == [n \in 1..121 |-> <<((n - 1) % 11) + 1, ((n - 1) \div 11) + 1>>]

\* whether the visit of (y, x) calls addch
draws(y, x) ==
    \/ x % 4 = 0
    \/ y % 4 = 0
    \/ /\ is_on_grid(y, x)
       /\ LET ij == yx_to_ij(y, x)
          IN  initial_board[ij[1]][ij[2]] # 0 \/ board[ij[1]][ij[2]] # 0

\* whether the visit of (y, x) raises: an addch outside the window, or a
\* board indexed with yx_to_ij's None
draw_fails(y, x) ==
    IF x % 4 = 0 \/ y % 4 = 0 THEN ~addch_ok(y, x)
    ELSE IF ~is_on_grid(y, x) THEN TRUE
    ELSE draws(y, x) /\ ~addch_ok(y, x)

\* the positions init_board calls yx_to_ij with: it does so first thing in
\* every visit, up to and including the visit that raises
init_board_calls(first) ==
    {DrawOrder[n] : n \in {m \in 1..121 : m <= first}}

\* init_board, then the stdscr.move(1, 1) that opens play()
InitBoard ==
    /\ pc = "init_board"
    /\ LET failing == {n \in 1..121 : draw_fails(DrawOrder[n][1], DrawOrder[n][2])}
           first == IF failing = {} THEN 122
                    ELSE CHOOSE n \in failing : \A m \in failing : n <= m
           drawn == {n \in 1..(first - 1) : draws(DrawOrder[n][1], DrawOrder[n][2])}
           last == CHOOSE n \in drawn : \A m \in drawn : m <= n
       IN  /\ IF failing = {}
              THEN IF move_ok(1, 1)
                   THEN pc' = "play" /\ cursor' = <<1, 1>>
                   ELSE pc' = "error" /\ cursor' = <<DrawOrder[last][1], DrawOrder[last][2] + 1>>
              ELSE /\ pc' = "error"
                   /\ cursor' = IF drawn = {} THEN cursor
                                ELSE <<DrawOrder[last][1], DrawOrder[last][2] + 1>>
           /\ off_grid_calls' = off_grid_calls \cup off_grid(init_board_calls(first))
    /\ UNCHANGED <<height, width, initial_board, board, c, checked,
                   end_condition, arg, ret>>

----------------------------------------------------------------------------
(* play(): one action per branch of the loop, each a whole iteration.      *)

\* mutant: the comparison with ESC never matches, the key is ignored
KeyQuit_ignored ==
    /\ pc = "play"
    /\ c' = ESC
    /\ checked' = FALSE
    /\ UNCHANGED <<height, width, initial_board, board, cursor, pc,
                   end_condition, off_grid_calls, arg, ret>>

\* c == ESC: return "quit"
KeyQuit ==
    /\ pc = "play"
    /\ c' = ESC
    /\ checked' = FALSE
    /\ end_condition' = "quit"
    /\ pc' = "postgame"
    /\ UNCHANGED <<height, width, initial_board, board, cursor, off_grid_calls,
                   arg, ret>>

\* an arrow key: try_move on the raw neighbour of the cursor
KeyArrow(dir) ==
    /\ pc = "play"
    /\ c' = dir
    /\ checked' = FALSE
    /\ LET n == neighbour(cursor[1], cursor[2], dir)
           to == try_move(n[1], n[2], dir)
       IN  IF to = cursor
           THEN UNCHANGED <<cursor, pc>>
           ELSE IF move_ok(to[1], to[2])
                THEN cursor' = to /\ UNCHANGED pc
                ELSE pc' = "error" /\ UNCHANGED cursor
    /\ UNCHANGED <<height, width, initial_board, board, end_condition, off_grid_calls, arg, ret>>

\* mutant: is_completed is called only when try_place wrote the digit
KeyDigit_check_if_placed(num) ==
    /\ pc = "play"
    /\ c' = num
    /\ LET y == cursor[1]
           x == cursor[2]
       IN  IF ~place_accepted(board, y, x, num)
           THEN /\ checked' = FALSE
                /\ UNCHANGED <<board, cursor, pc, end_condition>>
           ELSE /\ board' = try_place(board, y, x, num)
                /\ checked' = TRUE
                /\ UNCHANGED cursor
                /\ IF is_completed(board', TRUE)
                   THEN pc' = "postgame" /\ end_condition' = "win"
                   ELSE UNCHANGED <<pc, end_condition>>
    /\ UNCHANGED <<height, width, initial_board, off_grid_calls, arg, ret>>

\* a digit key other than "0": try_place, then is_completed
KeyDigit(num) ==
    /\ pc = "play"
    /\ c' = num
    /\ LET y == cursor[1]
           x == cursor[2]
       IN  /\ IF place_accepted(board, y, x, num) /\ ~addch_ok(y, x)
              THEN /\ pc' = "error"
                   /\ checked' = FALSE
                   /\ UNCHANGED <<board, cursor, end_condition>>
              ELSE /\ board' = try_place(board, y, x, num)
                   /\ checked' = TRUE
                   /\ UNCHANGED cursor
                   /\ IF is_completed_raises(board')
                      THEN pc' = "error" /\ UNCHANGED end_condition
                      ELSE IF is_completed(board', TRUE)
                           THEN pc' = "postgame" /\ end_condition' = "win"
                           ELSE UNCHANGED <<pc, end_condition>>
           /\ initial_board' = written_through(initial_board, board')
           /\ off_grid_calls' = off_grid_calls \cup off_grid(guarded_calls(y, x))
    /\ UNCHANGED <<height, width, arg, ret>>

\* an erase key: try_del
KeyErase(k) ==
    /\ pc = "play"
    /\ c' = k
    /\ checked' = FALSE
    /\ LET y == cursor[1]
           x == cursor[2]
       IN  /\ IF del_accepted(y, x) /\ ~addch_ok(y, x)
              THEN pc' = "error" /\ UNCHANGED board
              ELSE board' = try_del(board, y, x) /\ UNCHANGED pc
           /\ initial_board' = written_through(initial_board, board')
           /\ off_grid_calls' = off_grid_calls \cup off_grid(guarded_calls(y, x))
    /\ UNCHANGED <<height, width, cursor, end_condition, arg, ret>>

\* any other key: no branch is taken
KeyOther(k) ==
    /\ pc = "play"
    /\ c' = k
    /\ checked' = FALSE
    /\ UNCHANGED <<height, width, initial_board, board, cursor, pc,
                   end_condition, off_grid_calls, arg, ret>>

\* quit_postgame / win_postgame: addstr at line 14, getch; then _end
Postgame ==
    /\ pc = "postgame"
    /\ LET text == IF end_condition = "quit" THEN QuitText ELSE WinText
       IN  IF addstr_ok(14, text)
           THEN pc' = "end" /\ cursor' = addstr_end(14, text)
           ELSE pc' = "error" /\ UNCHANGED cursor
    /\ UNCHANGED <<height, width, initial_board, board, c, checked,
                   end_condition, off_grid_calls, arg, ret>>

Next ==
    \/ Pregame
    \/ InitBoard
    \/ KeyQuit
    \/ \E dir \in ArrowKeys : KeyArrow(dir)
    \/ \E num \in DigitKeys : KeyDigit(num)
    \/ \E k \in EraseKeys : KeyErase(k)
    \/ \E k \in OtherKeys : KeyOther(k)
    \/ Postgame

Spec == Init /\ [][Next]_vars

----------------------------------------------------------------------------
(* The coordinate mapping on its own: every terminal size up to MaxTerm    *)
(* and every screen position from -1 to ProbeMax.                          *)

Probes == (-1)..ProbeMax

InitMap ==
    /\ height \in 0..MaxTerm
    /\ width \in 0..MaxTerm
    /\ initial_board = Puzzle
    /\ board = Puzzle
    /\ cursor = <<0, 0>>
    /\ c = NoKey
    /\ checked = FALSE
    /\ pc = "map"
    /\ end_condition = "none"
    /\ off_grid_calls = {}
    /\ arg = <<>>
    /\ ret = <<>>

\* is_on_grid(y, x) and yx_to_ij(y, x)
ProbeMap(y, x) ==
    /\ pc = "map"
    /\ arg = <<>>
    /\ arg' = <<y, x>>
    /\ ret' = [on_grid |-> is_on_grid(y, x), ij |-> yx_to_ij(y, x)]
    /\ UNCHANGED game

NextMap == \E y \in Probes : \E x \in Probes : ProbeMap(y, x)

SpecMap == InitMap /\ [][NextMap]_vars

----------------------------------------------------------------------------
(* The completion check on its own: boards that differ from a base grid in *)
(* at most MaxPokes of the cells PokeCells, each holding any of 0..9.      *)

\* rows and columns are permutations of 1..9, the squares are not
Latin == [i \in Idx |-> [j \in Idx |-> ((i + j) % 9) + 1]]

BaseGrids == {Solved, Latin}

PokeCells == {<<0, 0>>, <<0, 1>>, <<1, 0>>, <<4, 4>>, <<8, 8>>}

InitCheck ==
    /\ height = 24
    /\ width = 80
    /\ initial_board \in BaseGrids
    /\ board = initial_board
    /\ cursor = <<0, 0>>
    /\ c = NoKey
    /\ checked = FALSE
    /\ pc = "check"
    /\ end_condition = "none"
    /\ off_grid_calls = {}
    /\ arg = {}
    /\ ret = [deep |-> is_completed(board, TRUE), fast |-> is_completed(board, FALSE)]

\* change one more cell, then is_completed(True) and is_completed(False)
Poke(cell, v) ==
    /\ pc = "check"
    /\ cell \notin arg
    /\ Cardinality(arg) < MaxPokes
    /\ arg' = arg \cup {cell}
    /\ board' = [board EXCEPT ![cell[1]][cell[2]] = v]
    /\ ret' = [deep |-> is_completed(board', TRUE), fast |-> is_completed(board', FALSE)]
    /\ UNCHANGED <<height, width, initial_board, cursor, c, checked, pc,
                   end_condition, off_grid_calls>>

NextCheck == \E cell \in PokeCells : \E v \in 0..9 : Poke(cell, v)

SpecCheck == InitCheck /\ [][NextCheck]_vars

----------------------------------------------------------------------------
(* What the properties are stated with: the grid as the specification      *)
(* describes it, independent of the operators above.                       *)

\* the screen rows and columns that hold cells, in order
PlayableSeq == <<1, 2, 3, 5, 6, 7, 9, 10, 11>>
Playable == {PlayableSeq[n] : n \in 1..9}

\* the logical index of a playable screen row or column
Rank(v) == Cardinality({u \in Playable : u < v})

\* the cursor is on a cell the player may edit
Editable(p) ==
    /\ p[1] \in Playable /\ p[2] \in Playable
    /\ is_on_grid(p[1], p[2])
    /\ initial_board[Rank(p[1])][Rank(p[2])] = 0

\* digit d occurs in row i, column j or the 3x3 box of (i, j) of board b
Occurs(b, i, j, d) ==
    \/ \E k \in Idx : b[i][k] = d
    \/ \E k \in Idx : b[k][j] = d
    \/ \E r \in Idx : \E s \in Idx :
          r \div 3 = i \div 3 /\ s \div 3 = j \div 3 /\ b[r][s] = d

\* the nine cells hold each of 1..9 exactly once
Permutation(b, cells) ==
    \A d \in 1..9 : Cardinality({cl \in cells : b[cl[1]][cl[2]] = d}) = 1

\* every row, column and box of b is a permutation of 1..9
Correct(b) ==
    /\ \A i \in Idx : Permutation(b, {<<i, j>> : j \in Idx})
    /\ \A j \in Idx : Permutation(b, {<<i, j>> : i \in Idx})
    /\ \A k \in 0..2 : \A l \in 0..2 :
          Permutation(b, {<<3 * k + i, 3 * l + j>> : i \in 0..2, j \in 0..2})

HasBlank(b) == \E i \in Idx : \E j \in Idx : b[i][j] = 0

----------------------------------------------------------------------------
(* C1: in every state, every cell that is non-zero in the initial board    *)
(* holds the same value in the player board: no digit or erase event, on   *)
(* whatever cell and with whatever digit, alters a given cell.             *)
C1_GivenCellsKept ==
    \A i \in Idx : \A j \in Idx :
        initial_board[i][j] # 0 => board[i][j] = initial_board[i][j]

\* an erase event was handled with the cursor on a given cell, on a board
\* the player has already edited
C1_Witness ==
    /\ pc = "play"
    /\ c \in EraseKeys
    /\ cursor[1] \in Playable /\ cursor[2] \in Playable
    /\ initial_board[Rank(cursor[1])][Rank(cursor[2])] # 0
    /\ board # initial_board

(* C2: a digit event on an editable on-grid cell whose digit already       *)
(* occurs in the cell's row, column or 3x3 box is rejected: the player     *)
(* board and the cursor are as before the event.                           *)
C2_ConflictRejected ==
    [][(/\ pc = "play"
        /\ c' \in DigitKeys
        /\ Editable(cursor)
        /\ Occurs(board, Rank(cursor[1]), Rank(cursor[2]), int(c')))
       => (board' = board /\ cursor' = cursor)]_vars

\* a digit event was rejected: the digit is not in the cell under the
\* cursor, and occurs in its row, column or box
C2_Witness ==
    /\ pc = "play"
    /\ c \in DigitKeys
    /\ Editable(cursor)
    /\ board[Rank(cursor[1])][Rank(cursor[2])] # int(c)
    /\ Occurs(board, Rank(cursor[1]), Rank(cursor[2]), int(c))

(* C3: a digit event on an editable on-grid cell whose digit occurs in     *)
(* none of the cell's row, column and 3x3 box is accepted: afterwards the  *)
(* player board holds the digit there, also when the cell held another     *)
(* digit before.                                                           *)
C3_FreePlaced ==
    [][(/\ pc = "play"
        /\ c' \in DigitKeys
        /\ Editable(cursor)
        /\ ~Occurs(board, Rank(cursor[1]), Rank(cursor[2]), int(c')))
       => board'[Rank(cursor[1])][Rank(cursor[2])] = int(c')]_vars

\* a digit event was accepted on a cell whose solved value is another
\* digit: the cell under the cursor holds the digit typed
C3_Witness ==
    /\ pc = "play"
    /\ c \in DigitKeys
    /\ Editable(cursor)
    /\ board[Rank(cursor[1])][Rank(cursor[2])] = int(c)
    /\ Solved[Rank(cursor[1])][Rank(cursor[2])] # int(c)

(* C4: for a 9x9 board with cells in 0..9, is_completed(deep_check=True)   *)
(* is true iff no cell is 0 and every row, column and 3x3 box holds each   *)
(* of 1..9 exactly once; it is false whenever a cell is 0.                 *)
C4_DeepCheckExact ==
    /\ ret.deep = (~HasBlank(board) /\ Correct(board))
    /\ HasBlank(board) => ret.deep = FALSE

\* a full board whose rows, columns or boxes are not all permutations:
\* cells of a solved grid were changed, none to 0, and the deep check fails
C4_Witness ==
    /\ arg # {}
    /\ initial_board = Solved
    /\ ~HasBlank(board)
    /\ ret.deep = FALSE

(* C5: the loop ends with "win" exactly when a digit event leaves the     *)
(* player board full and correct, and handles no event after that; it      *)
(* never ends with "win" on a board with a blank cell or with a row,       *)
(* column or box that is not a permutation of 1..9; and it leaves the      *)
(* loop in no other way than by a quit event.                              *)
C5_WinExactly ==
    [][/\ (/\ pc = "play" /\ c' \in DigitKeys
           /\ ~HasBlank(board') /\ Correct(board'))
          => (end_condition' = "win" /\ pc' # "play")
       /\ end_condition' = "win" => (~HasBlank(board') /\ Correct(board'))
       /\ end_condition = "win"
          => (end_condition' = "win" /\ c' = c /\ board' = board)
       /\ (pc = "play" /\ pc' # "play")
          => \/ c' = ESC /\ end_condition' = "quit"
             \/ c' \in DigitKeys /\ end_condition' = "win"]_vars

\* play() has returned "win"
C5_Witness ==
    /\ end_condition = "win"
    /\ pc = "postgame"
    /\ c \in DigitKeys

(* C6, as claimed: the completion check is run, and the loop ends with     *)
(* "win", only directly after a digit event whose placement was accepted   *)
(* (the player board cell was set).                                        *)
C6_CheckOnlyAfterAccepted ==
    [][(pc = "play" /\ (checked' \/ end_condition' = "win"))
       => (c' \in DigitKeys /\ board' # board)]_vars

(* C6, amended: the completion check is run directly after every digit     *)
(* event, accepted or rejected, and after no other event; the loop ends    *)
(* with "win" only directly after a digit event and, when the initial      *)
(* board has a blank cell, only after one whose placement was accepted.    *)
C6_CheckAfterEveryDigit ==
    [][pc = "play"
       => /\ checked' = (c' \in DigitKeys)
          /\ end_condition' = "win"
             => /\ c' \in DigitKeys
                /\ HasBlank(initial_board) => board' # board]_vars

\* a digit event on a given cell, which try_place rejects, was followed by
\* the completion check, and the loop goes on
C6_Witness ==
    /\ pc = "play"
    /\ c \in DigitKeys
    /\ checked
    /\ cursor[1] \in Playable /\ cursor[2] \in Playable
    /\ initial_board[Rank(cursor[1])][Rank(cursor[2])] # 0

(* C7: in every state of the loop a quit event can be handled, and it ends *)
(* the loop with outcome "quit" in that one step, changing neither board   *)
(* nor the cursor; once the loop has ended with "quit" no further event is *)
(* handled.                                                                *)
C7_QuitEndsLoop ==
    /\ [](pc = "play" => ENABLED KeyQuit)
    /\ [][/\ (pc = "play" /\ c' = ESC)
             => /\ end_condition' = "quit" /\ pc' # "play"
                /\ board' = board /\ initial_board' = initial_board
                /\ cursor' = cursor
          /\ end_condition = "quit"
             => (end_condition' = "quit" /\ c' = c /\ board' = board)]_vars

\* the loop has ended with "quit" on a board the player has edited, with
\* the cursor away from its start
C7_Witness ==
    /\ end_condition = "quit"
    /\ pc = "postgame"
    /\ c = ESC
    /\ board # initial_board
    /\ cursor # <<1, 1>>

(* C8: for every screen position (y, x) and terminal size, is_on_grid is   *)
(* true iff 0 <= y <= height and 0 <= x <= width - 2 (safe bounds),        *)
(* 0 <= y <= 12 and 0 <= x <= 12 (grid span), and neither y mod 4 = 0 nor  *)
(* x mod 4 = 0.                                                            *)
C8_OnGridIff ==
    arg # <<>> =>
        ret.on_grid =
            (/\ 0 <= arg[1] /\ arg[1] <= height
             /\ 0 <= arg[2] /\ arg[2] <= width - 2
             /\ 0 <= arg[1] /\ arg[1] <= 12
             /\ 0 <= arg[2] /\ arg[2] <= 12
             /\ arg[1] % 4 # 0
             /\ arg[2] % 4 # 0)

\* a position on the last safe line and the last safe column is on the grid
C8_Witness ==
    /\ arg # <<>>
    /\ arg[1] = height
    /\ arg[2] = width - 2
    /\ ret.on_grid

\* the screen position of logical index (i, j)
ToScreen(i, j) == <<PlayableSeq[i + 1], PlayableSeq[j + 1]>>

(* C9: with height >= 11 and width >= 13, yx_to_ij on the positions where  *)
(* is_on_grid is true is a bijection onto 0..8 x 0..8 that keeps the order *)
(* of each coordinate: rows and columns 1,2,3,5,6,7,9,10,11 map to 0..8,   *)
(* and the screen mapping ToScreen is its inverse on both sides.           *)
C9_Bijection ==
    (height >= 11 /\ width >= 13) =>
        /\ \A i \in Idx : \A j \in Idx :
              /\ is_on_grid(ToScreen(i, j)[1], ToScreen(i, j)[2])
              /\ yx_to_ij(ToScreen(i, j)[1], ToScreen(i, j)[2]) = <<i, j>>
        /\ arg # <<>> =>
              /\ ret.on_grid = (arg[1] \in Playable /\ arg[2] \in Playable)
              /\ ret.on_grid =>
                    /\ ret.ij = <<Rank(arg[1]), Rank(arg[2])>>
                    /\ ret.ij[1] \in Idx /\ ret.ij[2] \in Idx
                    /\ ToScreen(ret.ij[1], ret.ij[2]) = arg

\* on the smallest terminal of the claim the last cell maps to (8, 8)
C9_Witness ==
    /\ height = 11 /\ width = 13
    /\ arg = <<11, 11>>
    /\ ret.on_grid
    /\ ret.ij = <<8, 8>>

\* the unit step of an arrow key
Delta(dir) ==
    CASE dir = "KEY_UP" -> <<-1, 0>>
      [] dir = "KEY_DOWN" -> <<1, 0>>
      [] dir = "KEY_LEFT" -> <<0, -1>>
      [] dir = "KEY_RIGHT" -> <<0, 1>>

(* C10: an arrow event in direction dir from cursor position p moves the   *)
(* cursor to p + dir if that is on the grid, else to p + 2*dir if that is  *)
(* on the grid, else leaves it at p: never further, never elsewhere.       *)
C10_ArrowStep ==
    [][(pc = "play" /\ c' \in ArrowKeys)
       => LET d == Delta(c')
              p1 == <<cursor[1] + d[1], cursor[2] + d[2]>>
              p2 == <<cursor[1] + 2 * d[1], cursor[2] + 2 * d[2]>>
          IN  /\ cursor' = IF is_on_grid(p1[1], p1[2]) THEN p1
                           ELSE IF is_on_grid(p2[1], p2[2]) THEN p2
                           ELSE cursor
              /\ cursor' \in {cursor, p1, p2}]_vars

\* a right arrow has carried the cursor over the separator at column 4
C10_Witness ==
    /\ pc = "play"
    /\ c = "KEY_RIGHT"
    /\ cursor = <<1, 5>>

(* C11: with height >= 11 and width >= 13, an arrow event with the cursor   *)
(* on the cell of logical index (i, j) moves the cursor to the cell whose  *)
(* index differs by exactly one in the key's direction, also across a      *)
(* separator, and leaves it where it is when (i, j) is on the outermost    *)
(* row or column in that direction; the cursor never rests on a separator. *)
C11_ArrowByOneCell ==
    [][(/\ pc = "play" /\ c' \in ArrowKeys
        /\ height >= 11 /\ width >= 13
        /\ cursor[1] \in Playable /\ cursor[2] \in Playable)
       => LET d == Delta(c')
              i == Rank(cursor[1]) + d[1]
              j == Rank(cursor[2]) + d[2]
          IN  /\ cursor' = IF i \in Idx /\ j \in Idx THEN ToScreen(i, j)
                           ELSE cursor
              /\ cursor'[1] \in Playable /\ cursor'[2] \in Playable
              /\ pc' = "play"]_vars

\* an up arrow has carried the cursor over the separator at line 8
C11_Witness ==
    /\ pc = "play"
    /\ c = "KEY_UP"
    /\ cursor = <<7, 9>>

(* C12: an erase event on an editable on-grid cell sets that cell of the   *)
(* player board to 0 whatever it held; on a cell that is 0 already it      *)
(* leaves the board unchanged, so a second erase changes nothing.          *)
C12_EraseToBlank ==
    [][(pc = "play" /\ c' \in EraseKeys /\ Editable(cursor))
       => /\ board'[Rank(cursor[1])][Rank(cursor[2])] = 0
          /\ board[Rank(cursor[1])][Rank(cursor[2])] = 0 => board' = board
          /\ try_del(board', cursor[1], cursor[2]) = board'
          /\ pc' = "play"]_vars

\* an erase event was handled on an editable cell: it is blank, and it is
\* the only blank cell of the player board
C12_Witness ==
    /\ pc = "play"
    /\ c \in EraseKeys
    /\ Editable(cursor)
    /\ board[Rank(cursor[1])][Rank(cursor[2])] = 0
    /\ \A i \in Idx : \A j \in Idx :
          <<i, j>> # <<Rank(cursor[1]), Rank(cursor[2])>> => board[i][j] # 0

(* C13: the initial board is never changed after startup: every step       *)
(* leaves every cell of it as it was, the writes of place and erase going  *)
(* to the player board only.                                               *)
C13_InitialBoardFrozen ==
    [][\A i \in Idx : \A j \in Idx :
          initial_board'[i][j] = initial_board[i][j]]_vars

\* a digit was written to the player board, which now differs from the
\* initial board in a cell the initial board has blank
C13_Witness ==
    /\ pc = "play"
    /\ c \in DigitKeys
    /\ \E i \in Idx : \E j \in Idx :
          initial_board[i][j] = 0 /\ board[i][j] = int(c)

\* the 27 units of the grid: its rows, columns and 3x3 boxes
Units ==
    {{<<i, j>> : j \in Idx} : i \in Idx}
        \cup {{<<i, j>> : i \in Idx} : j \in Idx}
        \cup {{<<3 * k + i, 3 * l + j>> : i \in 0..2, j \in 0..2} : k \in 0..2, l \in 0..2}

\* no digit 1..9 occurs twice in a row, column or box of b
NoDup(b) ==
    \A U \in Units :
        Cardinality({b[cl[1]][cl[2]] : cl \in U} \ {0})
            = Cardinality({cl \in U : b[cl[1]][cl[2]] # 0})

(* C14: when no digit 1..9 occurs twice in a row, column or box of the     *)
(* initial board, then in every reachable state is_completed returns the   *)
(* same value with deep_check False and True, raising with neither: a      *)
(* full player board is a correct one.                                     *)
C14_FastCheckSuffices ==
    NoDup(initial_board) =>
        /\ ~is_completed_raises(board)
        /\ is_completed(board, FALSE) = is_completed(board, TRUE)
        /\ ~HasBlank(board) => Correct(board)

\* the player has filled the last blank cell of a puzzle without repeated
\* givens: the fullness check alone says completed
C14_Witness ==
    /\ NoDup(initial_board)
    /\ HasBlank(initial_board)
    /\ is_completed(board, FALSE)

(* C15, as claimed: a cell of the player board changes only if it is       *)
(* editable, and only from 0 to the digit of a digit event or from a digit *)
(* to 0 by an erase event; no event takes a cell from one digit to         *)
(* another.                                                                *)
C15_BlankFilledOnly ==
    [][board' # board => \A i \in Idx : \A j \in Idx :
          board'[i][j] # board[i][j]
          => /\ initial_board[i][j] = 0
             /\ \/ /\ c' \in DigitKeys
                   /\ board[i][j] = 0
                   /\ board'[i][j] = int(c')
                \/ /\ c' \in EraseKeys
                   /\ board[i][j] # 0
                   /\ board'[i][j] = 0]_vars

(* C15, amended: a cell of the player board changes only if it is editable *)
(* and under the cursor, and only to the digit of an accepted digit event, *)
(* from 0 or from another digit, or from a digit to 0 by an erase event; a *)
(* given cell never changes.                                               *)
C15_CellTransitions ==
    [][board' # board => \A i \in Idx : \A j \in Idx :
          board'[i][j] # board[i][j]
          => /\ initial_board[i][j] = 0
             /\ pc = "play"
             /\ cursor = ToScreen(i, j)
             /\ \/ /\ c' \in DigitKeys
                   /\ ~Occurs(board, i, j, int(c'))
                   /\ board'[i][j] = int(c')
                \/ /\ c' \in EraseKeys
                   /\ board[i][j] # 0
                   /\ board'[i][j] = 0]_vars

\* a digit event was accepted on an editable cell while another editable
\* cell holds a digit that is not its solved value
C15_Witness ==
    /\ pc = "play"
    /\ c \in DigitKeys
    /\ Editable(cursor)
    /\ board[Rank(cursor[1])][Rank(cursor[2])] = int(c)
    /\ \E i \in Idx : \E j \in Idx :
          /\ <<i, j>> # <<Rank(cursor[1]), Rank(cursor[2])>>
          /\ board[i][j] \notin {0, Solved[i][j]}

(* C16: during init_board and any sequence of input events yx_to_ij is     *)
(* called, directly or through is_on_initial, with positions on which      *)
(* is_on_grid is true only: no call gets a separator or off-grid position, *)
(* none returns (None, None).                                              *)
C16_NoOffGridCalls == off_grid_calls = {}

C18_NoDuplicates == NoDup(initial_board) => NoDup(board)

\* an erase event was handled on a board without repeated digits on which
\* the player has a digit that is not the cell's solved value
C18_Witness ==
    /\ pc = "play"
    /\ c \in EraseKeys
    /\ NoDup(initial_board)
    /\ \E i \in Idx : \E j \in Idx :
          initial_board[i][j] = 0 /\ board[i][j] \notin {0, Solved[i][j]}

(* C19: with height >= 12 and width >= 13, the cursor is on a playable     *)
(* position whenever an input event is read: is_on_grid is true of it,     *)
(* from the start at (1, 1) and after any sequence of events, so yx_to_ij  *)
(* gives every digit and erase event a logical index in 0..8 x 0..8.       *)
C19_CursorPlayable ==
    (pc = "play" /\ height >= 12 /\ width >= 13)
        => /\ is_on_grid(cursor[1], cursor[2])
           /\ cursor[1] \in Playable /\ cursor[2] \in Playable
           /\ yx_to_ij(cursor[1], cursor[2]) \in Idx \X Idx
           /\ c = NoKey => cursor = <<1, 1>>

\* a digit event was handled with the cursor on the last cell of the grid
C19_Witness ==
    /\ pc = "play"
    /\ c \in DigitKeys
    /\ cursor = <<11, 11>>
    /\ yx_to_ij(cursor[1], cursor[2]) = <<8, 8>>

(* C20: an arrow event changes at most the cursor position: both boards    *)
(* are as before. A digit or erase event changes at most the cell of the   *)
(* player board under the cursor: every other cell of it, the initial      *)
(* board and the cursor position are as before.                            *)
C20_EventFrame ==
    [][pc = "play"
       => /\ c' \in ArrowKeys
             => (board' = board /\ initial_board' = initial_board)
          /\ c' \in DigitKeys \cup EraseKeys
             => /\ cursor' = cursor
                /\ initial_board' = initial_board
                /\ LET i == Rank(cursor[1])
                       j == Rank(cursor[2])
                   IN  board' = [board EXCEPT ![i][j] = board'[i][j]]]_vars

\* away from the start, a digit event was accepted on the cell under the
\* cursor, the only cell in which the player board differs from the
\* initial board
C20_Witness ==
    /\ pc = "play"
    /\ c \in DigitKeys
    /\ cursor = ToScreen(0, 4)
    /\ board[0][4] = int(c)
    /\ \A i \in Idx : \A j \in Idx :
          <<i, j>> # <<0, 4>> => board[i][j] = initial_board[i][j]

====
